---- MODULE Spec2Model ----
(***************************************************************************)
(* The todo-list store of the rrts example application: the todosReducer,  *)
(* the combined store reducer, the action creators fetchTodos and          *)
(* deleteTodo, and the connected _App component that drives them.          *)
(*                                                                         *)
(* Four specifications are given. SpecReducer drives the store through its *)
(* dispatch entry point with every action of a bounded universe (the       *)
(* declared Action union and actions of undeclared type), and records each *)
(* reducer call in `last`.  Spec is the application as it runs: the Fetch  *)
(* button, the network request of fetchTodos and the click on a rendered   *)
(* item.  SpecLog is the store again, with a log of the first MaxLog       *)
(* events: the actions dispatched, in order, and the calls of deleteTodo.  *)
(* SpecRace is the application again, with the latest click on an item     *)
(* kept in the log together with the requests in flight at that moment.    *)
(***************************************************************************)
EXTENDS Integers, Sequences, FiniteSets, TLC

\* ------------------------------------------------------------------ bounds
MaxId == 2       \* identifiers carried by items are 1..MaxId
MaxLen == 2      \* longest array the endpoint returns
MaxCalls == 2    \* calls of fetchTodos in one run
MaxLog == 2      \* events kept in the log of SpecLog

\* ------------------------------------------------------------- JS values
\* The JavaScript value `undefined`: a value that is no array (its domain
\* is {0}, and an array's is 1..n).
Undefined == [i \in {0} |-> "undefined"]

\* interface Todo { id: number; title: string; completed: boolean }
\* Every identifier with one item, and a second item carrying identifier 1
\* with another title and completion flag.
Todo ==
  {[id |-> i, title |-> "a", completed |-> FALSE] : i \in 1..MaxId}
    \cup {[id |-> 1, title |-> "b", completed |-> TRUE]}

\* Todo[]: the arrays of at most MaxLen items.
TodoArray == UNION {[1..n -> Todo] : n \in 0..MaxLen}

\* The identifiers a DeleteTodoAction may carry; MaxId + 1 is carried by no item.
TodoId == 1..(MaxId + 1)

\* enum ActionTypes { fetchTodos, deleteTodo }
ActionTypes == [fetchTodos |-> 0, deleteTodo |-> 1]

\* The types of the actions redux dispatches by itself while booting.  They
\* are strings no enum member is equal to; here, numbers below the enum.
ReduxActionTypes == [INIT |-> -1, PROBE_UNKNOWN_ACTION |-> -2]

\* A numeric action type that ActionTypes does not declare.
UndeclaredType == 1 + ActionTypes.deleteTodo

\* interface FetchTodosAction { type: ActionTypes.fetchTodos; payload: Todo[] }
FetchTodosAction ==
  {[type |-> ActionTypes.fetchTodos, payload |-> p] : p \in TodoArray}

\* interface DeleteTodoAction { type: ActionTypes.deleteTodo; payload: number }
DeleteTodoAction ==
  {[type |-> ActionTypes.deleteTodo, payload |-> k] : k \in TodoId}

\* The warm-up actions of redux: a type and nothing else.
ReduxAction ==
  {[type |-> t] : t \in {ReduxActionTypes.INIT, ReduxActionTypes.PROBE_UNKNOWN_ACTION}}

\* A variant of deleteTodo with a slip: the type is copied from fetchTodos.
deleteTodoFetchType(id) == [type |-> ActionTypes.fetchTodos, payload |-> id]

\* export const deleteTodo = (id: number): DeleteTodoAction
deleteTodo(id) == [type |-> ActionTypes.deleteTodo, payload |-> id]

\* ----------------------------------------------------------------- helpers
\* The identifiers of the items of an array.
IdsOf(s) == {s[i].id : i \in DOMAIN s}

\* No two items of the array carry the same identifier.
UniqueIds(s) == \A i, j \in DOMAIN s : i # j => s[i].id # s[j].id

\* ----------------------------------------------------------------- reducer
\* Array.prototype.filter with the reducer's callback, todo.id !== id.
FilterOut(s, id) ==
  LET Keep(todo) == todo.id # id
  IN SelectSeq(s, Keep)

\* Variants of todosReducer with one slip each.
\* fetchTodos merges the payload into the state: [...state, ...action.payload].
todosReducerMerging(state, action) ==
  LET s == IF state = Undefined THEN <<>> ELSE state
  IN CASE action.type = ActionTypes.fetchTodos ->
            [ret |-> s \o action.payload, alias |-> "new", input |-> state]
       [] action.type = ActionTypes.deleteTodo ->
            [ret |-> FilterOut(s, action.payload), alias |-> "new", input |-> state]
       [] OTHER ->
            [ret |-> s,
             alias |-> IF state = Undefined THEN "new" ELSE "state",
             input |-> state]

\* deleteTodo removes the first matching item only (findIndex + splice on a copy).
todosReducerDeletingFirst(state, action) ==
  LET s == IF state = Undefined THEN <<>> ELSE state
      hits == {i \in DOMAIN s : s[i].id = action.payload}
      first == CHOOSE i \in hits : \A j \in hits : i <= j
  IN CASE action.type = ActionTypes.fetchTodos ->
            [ret |-> action.payload, alias |-> "payload", input |-> state]
       [] action.type = ActionTypes.deleteTodo ->
            [ret |-> IF hits = {} THEN s
                     ELSE SubSeq(s, 1, first - 1) \o SubSeq(s, first + 1, Len(s)),
             alias |-> "new", input |-> state]
       [] OTHER ->
            [ret |-> s,
             alias |-> IF state = Undefined THEN "new" ELSE "state",
             input |-> state]

\* deleteTodo filters with === in place of !==.
todosReducerKeepingMatch(state, action) ==
  LET s == IF state = Undefined THEN <<>> ELSE state
      Match(todo) == todo.id = action.payload
  IN CASE action.type = ActionTypes.fetchTodos ->
            [ret |-> action.payload, alias |-> "payload", input |-> state]
       [] action.type = ActionTypes.deleteTodo ->
            [ret |-> SelectSeq(s, Match), alias |-> "new", input |-> state]
       [] OTHER ->
            [ret |-> s,
             alias |-> IF state = Undefined THEN "new" ELSE "state",
             input |-> state]

\* deleteTodo takes the payload for a position: filter((todo, i) => i + 1 !== id).
todosReducerDeletingAt(state, action) ==
  LET s == IF state = Undefined THEN <<>> ELSE state
      k == action.payload
  IN CASE action.type = ActionTypes.fetchTodos ->
            [ret |-> action.payload, alias |-> "payload", input |-> state]
       [] action.type = ActionTypes.deleteTodo ->
            [ret |-> IF k \in DOMAIN s
                     THEN SubSeq(s, 1, k - 1) \o SubSeq(s, k + 1, Len(s))
                     ELSE s,
             alias |-> "new", input |-> state]
       [] OTHER ->
            [ret |-> s,
             alias |-> IF state = Undefined THEN "new" ELSE "state",
             input |-> state]

\* The default case returns the default value [] in place of state.
todosReducerResetting(state, action) ==
  LET s == IF state = Undefined THEN <<>> ELSE state
  IN CASE action.type = ActionTypes.fetchTodos ->
            [ret |-> action.payload, alias |-> "payload", input |-> state]
       [] action.type = ActionTypes.deleteTodo ->
            [ret |-> FilterOut(s, action.payload), alias |-> "new", input |-> state]
       [] OTHER ->
            [ret |-> <<>>, alias |-> "new", input |-> state]

\* deleteTodo removes the items in place (splice) and returns state.
todosReducerInPlace(state, action) ==
  LET s == IF state = Undefined THEN <<>> ELSE state
  IN CASE action.type = ActionTypes.fetchTodos ->
            [ret |-> action.payload, alias |-> "payload", input |-> state]
       [] action.type = ActionTypes.deleteTodo ->
            [ret |-> FilterOut(s, action.payload),
             alias |-> IF state = Undefined THEN "new" ELSE "state",
             input |-> IF state = Undefined THEN state
                       ELSE FilterOut(s, action.payload)]
       [] OTHER ->
            [ret |-> s,
             alias |-> IF state = Undefined THEN "new" ELSE "state",
             input |-> state]

\* The state parameter has no default value: (state: Todo[], action: Action).
todosReducerNoDefault(state, action) ==
  CASE action.type = ActionTypes.fetchTodos ->
         [ret |-> action.payload, alias |-> "payload", input |-> state]
    [] action.type = ActionTypes.deleteTodo ->
         [ret |-> IF state = Undefined THEN Undefined
                  ELSE FilterOut(state, action.payload),
          alias |-> "new", input |-> state]
    [] OTHER ->
         [ret |-> state, alias |-> "state", input |-> state]

\* export const todosReducer = (state: Todo[] = [], action: Action) => ...
\* `state` is an array or Undefined.  The result is a record:
\*   ret    the value returned;
\*   alias  which array object that value is: "payload" (action.payload
\*          itself), "state" (the array passed in as state itself) or "new"
\*          (an array created by this call: the one filter builds, or the
\*          default value [] of the parameter);
\*   input  the contents, after the call, of the array passed in as state.
\* A variant of todosReducer that marks the item completed and keeps it.
todosReducerCompleting(state, action) ==
  LET s == IF state = Undefined THEN <<>> ELSE state
  IN CASE action.type = ActionTypes.fetchTodos ->
            [ret |-> action.payload, alias |-> "payload", input |-> state]
       [] action.type = ActionTypes.deleteTodo ->
            [ret |-> [i \in DOMAIN s |->
                        IF s[i].id = action.payload
                        THEN [s[i] EXCEPT !.completed = TRUE]
                        ELSE s[i]],
             alias |-> "new", input |-> state]
       [] OTHER ->
            [ret |-> s, alias |-> IF state = Undefined THEN "new" ELSE "state",
             input |-> state]

\* A variant of todosReducer whose deleteTodo case computes the filtered
\* list and falls out of the switch without returning it.
todosReducerNoReturn(state, action) ==
  LET s == IF state = Undefined THEN <<>> ELSE state
  IN CASE action.type = ActionTypes.fetchTodos ->
            [ret |-> action.payload, alias |-> "payload", input |-> state]
       [] action.type = ActionTypes.deleteTodo ->
            [ret |-> Undefined, alias |-> "new", input |-> state]
       [] OTHER ->
            [ret |-> s, alias |-> IF state = Undefined THEN "new" ELSE "state",
             input |-> state]

\* A variant of todosReducer whose deleteTodo case collects the kept items by
\* unshift, which returns them in the reverse order.
todosReducerReversing(state, action) ==
  LET s == IF state = Undefined THEN <<>> ELSE state
      f == FilterOut(s, action.payload)
  IN CASE action.type = ActionTypes.fetchTodos ->
            [ret |-> action.payload, alias |-> "payload", input |-> state]
       [] action.type = ActionTypes.deleteTodo ->
            [ret |-> [i \in DOMAIN f |-> f[Len(f) + 1 - i]],
             alias |-> "new", input |-> state]
       [] OTHER ->
            [ret |-> s, alias |-> IF state = Undefined THEN "new" ELSE "state",
             input |-> state]

\* A variant of todosReducer that takes the payload only while the list is
\* empty: state.length ? state : action.payload.
todosReducerKeepingOnFetch(state, action) ==
  LET s == IF state = Undefined THEN <<>> ELSE state
  IN CASE action.type = ActionTypes.fetchTodos ->
            [ret |-> IF Len(s) # 0 THEN s ELSE action.payload,
             alias |-> "payload", input |-> state]
       [] action.type = ActionTypes.deleteTodo ->
            [ret |-> FilterOut(s, action.payload), alias |-> "new", input |-> state]
       [] OTHER ->
            [ret |-> s, alias |-> IF state = Undefined THEN "new" ELSE "state",
             input |-> state]

todosReducer(state, action) ==
  LET s == IF state = Undefined THEN <<>> ELSE state
  IN CASE action.type = ActionTypes.fetchTodos ->
            [ret |-> action.payload, alias |-> "payload", input |-> state]
       [] action.type = ActionTypes.deleteTodo ->
            [ret |-> FilterOut(s, action.payload), alias |-> "new", input |-> state]
       [] OTHER ->
            [ret |-> s,
             alias |-> IF state = Undefined THEN "new" ELSE "state",
             input |-> state]

\* A variant of reducers that keeps the scaffolding's counter reducer next to
\* todos: combineReducers({ counter: () => 1, todos: todosReducer }).
reducersWithCounter(state, action) ==
  LET next == todosReducer(state.todos, action).ret
  IN IF next = Undefined THEN state ELSE [counter |-> 1, todos |-> next]

\* A variant of reducers that hands no slice to todosReducer, which then
\* starts from its default state at every dispatch.
reducersLosingSlice(state, action) ==
  LET next == todosReducer(Undefined, action).ret
  IN IF next = Undefined THEN state ELSE [todos |-> next]

\* export const reducers = combineReducers<StoreState>({ todos: todosReducer })
\* `state` is a StoreState [todos |-> ...]; before the store has booted its
\* todos field is Undefined.  combineReducers throws when a reducer returns
\* undefined, and the state is then left as it was.
reducers(state, action) ==
  LET next == todosReducer(state.todos, action).ret
  IN IF next = Undefined THEN state ELSE [todos |-> next]

\* ------------------------------------------------------------------- state
VARIABLES
  state,     \* the store's state, a StoreState
  last,      \* the reducer call made by the latest CreateStore or StoreDispatch
  hist,      \* what has been dispatched so far
  calls,     \* the calls of fetchTodos, by number
  settled,   \* the request settled latest
  props,     \* the props of _App as rendered latest
  fetching,  \* the component state of _App
  log        \* the events of SpecLog, oldest first; in SpecRace the latest click

vars == <<state, last, hist, calls, settled, props, fetching, log>>


\* ---------------------------------------------------------- action creator
\* export const fetchTodos = () => async (dispatch: Dispatch) => { ... }
\* What the async function does each time it runs: when it is called
\* ("called": it runs up to the await), when the awaited axios.get resolves
\* with `response` ("resolved") and when it rejects ("rejected").
\*   get       the requests it issues in that run;
\*   dispatch  the actions it dispatches in that run, in order;
\*   pc        where it is afterwards.
\* Variants with one slip each come first.
\* The rejection is caught and an empty list dispatched.
fetchTodosCatching(at, response) ==
  CASE at = "called" ->
         [get |-> 1, dispatch |-> <<>>, pc |-> "awaiting"]
    [] at = "resolved" ->
         [get |-> 0,
          dispatch |-> <<[type |-> ActionTypes.fetchTodos, payload |-> response.data]>>,
          pc |-> "done"]
    [] at = "rejected" ->
         [get |-> 0,
          dispatch |-> <<[type |-> ActionTypes.fetchTodos, payload |-> <<>>]>>,
          pc |-> "failed"]

\* The action is dispatched twice.
fetchTodosDispatchingTwice(at, response) ==
  CASE at = "called" ->
         [get |-> 1, dispatch |-> <<>>, pc |-> "awaiting"]
    [] at = "resolved" ->
         [get |-> 0,
          dispatch |-> <<[type |-> ActionTypes.fetchTodos, payload |-> response.data],
                         [type |-> ActionTypes.fetchTodos, payload |-> response.data]>>,
          pc |-> "done"]
    [] at = "rejected" ->
         [get |-> 0, dispatch |-> <<>>, pc |-> "failed"]

\* The list is cleared before the request is made.
fetchTodosClearingFirst(at, response) ==
  CASE at = "called" ->
         [get |-> 1,
          dispatch |-> <<[type |-> ActionTypes.fetchTodos, payload |-> <<>>]>>,
          pc |-> "awaiting"]
    [] at = "resolved" ->
         [get |-> 0,
          dispatch |-> <<[type |-> ActionTypes.fetchTodos, payload |-> response.data]>>,
          pc |-> "done"]
    [] at = "rejected" ->
         [get |-> 0, dispatch |-> <<>>, pc |-> "failed"]

fetchTodos(at, response) ==
  CASE at = "called" ->
         [get |-> 1, dispatch |-> <<>>, pc |-> "awaiting"]
    [] at = "resolved" ->
         [get |-> 0,
          dispatch |-> <<[type |-> ActionTypes.fetchTodos, payload |-> response.data]>>,
          pc |-> "done"]
    [] at = "rejected" ->
         [get |-> 0, dispatch |-> <<>>, pc |-> "failed"]

\* --------------------------------------------------------------- component
\* A variant of mapStateToProps that hands the open items only to the view.
mapStateToPropsOpenOnly(s) ==
  [todos |-> SelectSeq(s.todos, LAMBDA x : ~x.completed)]

\* const mapStateToProps = ({ todos }: StoreState): { todos: Todo[] }
mapStateToProps(s) == [todos |-> s.todos]

\* A variant of componentDidUpdate that resets the flag whenever the new list
\* is not empty, whatever the previous one was.
componentDidUpdateOnAnyList(prevProps, thisProps, flag) ==
  IF Len(thisProps.todos) # 0 THEN FALSE ELSE flag

\* componentDidUpdate(prevProps: AppProps): the fetching flag afterwards.
componentDidUpdate(prevProps, thisProps, flag) ==
  IF Len(prevProps.todos) = 0 /\ Len(thisProps.todos) # 0 THEN FALSE ELSE flag

\* ------------------------------------------------------------------- store
Booted == state.todos # Undefined

\* The record kept in `last` of one call of todosReducer.
CallRecord(s, action) ==
  LET r == todosReducer(s, action)
  IN [called |-> TRUE, state |-> s, action |-> action,
      ret |-> r.ret, alias |-> r.alias, input |-> r.input]

\* `hist` after one more dispatched action.
HistAfter(h, action) ==
  IF action.type = ActionTypes.fetchTodos
  THEN [fetched |-> TRUE, dup |-> h.dup \/ ~UniqueIds(action.payload)]
  ELSE h

\* store.dispatch(action) with the connected component subscribed: the
\* reducer computes the next state, the component is rendered with the props
\* mapped from it, and componentDidUpdate runs.  `w` holds the store's
\* state, the history, and the component's props and fetching flag.
Dispatch(w, action) ==
  LET s2 == reducers(w.state, action)
      p2 == mapStateToProps(s2)
  IN [state |-> s2,
      hist |-> HistAfter(w.hist, action),
      props |-> p2,
      fetching |-> componentDidUpdate(w.props, p2, w.fetching)]

\* The actions of a sequence dispatched one after the other.
RECURSIVE DispatchAll(_, _)
DispatchAll(w, actions) ==
  IF actions = <<>> THEN w
  ELSE DispatchAll(Dispatch(w, Head(actions)), Tail(actions))

World == [state |-> state, hist |-> hist, props |-> props, fetching |-> fetching]

Becomes(w) ==
  /\ state' = w.state
  /\ hist' = w.hist
  /\ props' = w.props
  /\ fetching' = w.fetching

Idle == [pc |-> "idle", gets |-> 0, dispatched |-> 0]

Init ==
  /\ state = [todos |-> Undefined]
  /\ last = [called |-> FALSE]
  /\ hist = [fetched |-> FALSE, dup |-> FALSE]
  /\ calls = [i \in 1..MaxCalls |-> Idle]
  /\ settled = [call |-> 0]
  /\ props = [todos |-> Undefined]
  /\ fetching = FALSE
  /\ log = <<>>

\* createStore(reducers, applyMiddleware(thunk)) and ReactDOM.render: redux
\* sends a warm-up action to get the initial state, and the component is
\* mounted with the props mapped from it.
CreateStore ==
  /\ ~Booted
  /\ \E a \in ReduxAction :
       /\ state' = reducers(state, a)
       /\ last' = CallRecord(state.todos, a)
  /\ props' = mapStateToProps(state')
  /\ UNCHANGED <<hist, calls, settled, fetching, log>>

\* store.dispatch(a) from outside the component.
StoreDispatch(a) ==
  /\ Booted
  /\ last' = CallRecord(state.todos, a)
  /\ Becomes(Dispatch(World, a))
  /\ UNCHANGED <<calls, settled>>

DispatchFetchTodos ==
  /\ \E a \in FetchTodosAction : StoreDispatch(a)
  /\ UNCHANGED log

DispatchDeleteTodo ==
  /\ \E a \in DeleteTodoAction : StoreDispatch(a)
  /\ UNCHANGED log

\* Actions of a type the reducer does not know: without a payload, with a
\* number for a payload, with an array for a payload.
DispatchUnknown ==
  /\ \E t \in {ReduxActionTypes.INIT, ReduxActionTypes.PROBE_UNKNOWN_ACTION,
               UndeclaredType} :
       StoreDispatch([type |-> t])
  /\ UNCHANGED log

DispatchUnknownWithId ==
  /\ \E k \in TodoId : StoreDispatch([type |-> UndeclaredType, payload |-> k])
  /\ UNCHANGED log

DispatchUnknownWithList ==
  /\ \E p \in TodoArray : StoreDispatch([type |-> UndeclaredType, payload |-> p])
  /\ UNCHANGED log

NextReducer ==
  \/ CreateStore
  \/ DispatchFetchTodos
  \/ DispatchDeleteTodo
  \/ DispatchUnknown
  \/ DispatchUnknownWithId
  \/ DispatchUnknownWithList

SpecReducer == Init /\ [][NextReducer]_vars

\* --------------------------------------------------------------- event log
\* store.dispatch(a), logged.
LoggedDispatch(a) ==
  /\ Len(log) < MaxLog
  /\ StoreDispatch(a)
  /\ log' = Append(log, [ev |-> "dispatch", action |-> a])

LogFetchTodos == \E a \in FetchTodosAction : LoggedDispatch(a)

LogDeleteTodo == \E a \in DeleteTodoAction : LoggedDispatch(a)

LogUnknown ==
  \E t \in {ReduxActionTypes.INIT, ReduxActionTypes.PROBE_UNKNOWN_ACTION,
            UndeclaredType} :
    LoggedDispatch([type |-> t])

\* deleteTodo(id) called by itself: the action creator builds an object and
\* returns it; the call and its result are logged.
CallDeleteTodo ==
  /\ Len(log) < MaxLog
  /\ \E id \in TodoId :
       log' = Append(log, [ev |-> "deleteTodo", id |-> id, ret |-> deleteTodo(id)])
  /\ UNCHANGED <<state, last, hist, calls, settled, props, fetching>>

NextLog ==
  \/ CreateStore
  \/ LogFetchTodos
  \/ LogDeleteTodo
  \/ LogUnknown
  \/ CallDeleteTodo

SpecLog == Init /\ [][NextLog]_vars

\* ------------------------------------------------------------- application
\* calls[i] after the async function of call i has run once more.
CallAfter(c, r) ==
  [pc |-> r.pc, gets |-> c.gets + r.get, dispatched |-> c.dispatched + Len(r.dispatch)]

\* A variant of onButtonClick that keeps the latest request only: the
\* requests in flight are cancelled when a new one is made.
onButtonClickCancelling ==
  /\ Booted
  /\ \E i \in 1..MaxCalls :
       /\ calls[i].pc = "idle"
       /\ \A j \in 1..(i - 1) : calls[j].pc # "idle"
       /\ LET r == fetchTodos("called", [data |-> <<>>])
              w == DispatchAll(World, r.dispatch)
          IN /\ calls' = [j \in 1..MaxCalls |->
                           IF j = i THEN CallAfter(calls[j], r)
                           ELSE IF calls[j].pc = "awaiting"
                                THEN [calls[j] EXCEPT !.pc = "failed"]
                                ELSE calls[j]]
             /\ Becomes([w EXCEPT !.fetching = TRUE])
  /\ UNCHANGED <<last, settled, log>>

\* onButtonClick: this.props.fetchTodos(); this.setState({ fetching: true }).
\* The calls are numbered in the order they are made.
onButtonClick ==
  /\ Booted
  /\ \E i \in 1..MaxCalls :
       /\ calls[i].pc = "idle"
       /\ \A j \in 1..(i - 1) : calls[j].pc # "idle"
       /\ LET r == fetchTodos("called", [data |-> <<>>])
              w == DispatchAll(World, r.dispatch)
          IN /\ calls' = [calls EXCEPT ![i] = CallAfter(@, r)]
             /\ Becomes([w EXCEPT !.fetching = TRUE])
  /\ UNCHANGED <<last, settled, log>>

\* The axios.get of call i resolves with `data`, and the async function resumes.
GetResolves ==
  /\ \E i \in 1..MaxCalls, data \in TodoArray :
       /\ calls[i].pc = "awaiting"
       /\ LET r == fetchTodos("resolved", [data |-> data])
          IN /\ calls' = [calls EXCEPT ![i] = CallAfter(@, r)]
             /\ Becomes(DispatchAll(World, r.dispatch))
             /\ settled' = [call |-> i, outcome |-> "resolved", data |-> data,
                            dispatch |-> r.dispatch]
  /\ UNCHANGED <<last, log>>

\* The axios.get of call i rejects, and the async function resumes by throwing.
GetRejects ==
  /\ \E i \in 1..MaxCalls :
       /\ calls[i].pc = "awaiting"
       /\ LET r == fetchTodos("rejected", [data |-> <<>>])
          IN /\ calls' = [calls EXCEPT ![i] = CallAfter(@, r)]
             /\ Becomes(DispatchAll(World, r.dispatch))
             /\ settled' = [call |-> i, outcome |-> "rejected", dispatch |-> r.dispatch]
  /\ UNCHANGED <<last, log>>

\* onTodoClick(id), bound to the click on a rendered item: this.props.deleteTodo(id).
onTodoClick ==
  /\ Booted
  /\ \E id \in IdsOf(props.todos) : Becomes(Dispatch(World, deleteTodo(id)))
  /\ UNCHANGED <<last, calls, settled, log>>

Next ==
  \/ CreateStore
  \/ onButtonClick
  \/ GetResolves
  \/ GetRejects
  \/ onTodoClick

Spec == Init /\ [][Next]_vars

\* ------------------------------------------- the application, clicks logged
\* A variant of onTodoClickLogged in which renderList hands the position of
\* the item in the list (from 0) to onTodoClick, not todo.id.
onTodoClickLoggedByIndex ==
  /\ Booted
  /\ \E i \in DOMAIN props.todos :
       /\ Becomes(Dispatch(World, deleteTodo(i - 1)))
       /\ log' = <<[ev |-> "onTodoClick", id |-> i - 1,
                    inflight |-> {j \in 1..MaxCalls : calls[j].pc = "awaiting"}]>>
  /\ UNCHANGED <<last, calls, settled>>

\* onTodoClick(id), with the latest click kept in the log: the identifier
\* clicked and the calls of fetchTodos whose request is in flight at the
\* moment of the click.
onTodoClickLogged ==
  /\ Booted
  /\ \E id \in IdsOf(props.todos) :
       /\ Becomes(Dispatch(World, deleteTodo(id)))
       /\ log' = <<[ev |-> "onTodoClick", id |-> id,
                    inflight |-> {i \in 1..MaxCalls : calls[i].pc = "awaiting"}]>>
  /\ UNCHANGED <<last, calls, settled>>

NextRace ==
  \/ CreateStore
  \/ onButtonClick
  \/ GetResolves
  \/ GetRejects
  \/ onTodoClickLogged

SpecRace == Init /\ [][NextRace]_vars


\* ============================================================== properties
\* Operators the properties are stated with.
IsFetch(a) == a.type = ActionTypes.fetchTodos
IsDelete(a) == a.type = ActionTypes.deleteTodo
IsUnknown(a) == ~IsFetch(a) /\ ~IsDelete(a)

\* A call of the reducer on a list state has been recorded.
CalledOnList == last.called /\ last.state # Undefined

\* The array s without its i-th item.
RemoveAt(s, i) == [j \in 1..(Len(s) - 1) |-> IF j < i THEN s[j] ELSE s[j + 1]]

\* The positions of s whose item carries identifier k, and the others.
Hits(s, k) == {i \in DOMAIN s : s[i].id = k}
Rest(s, k) == DOMAIN s \ Hits(s, k)

\* r holds the items of s at the positions of `keep`, in the order of s.
IsSelection(r, s, keep) ==
  /\ Len(r) = Cardinality(keep)
  /\ \A j \in DOMAIN r :
       \E i \in keep : /\ Cardinality({m \in keep : m <= i}) = j
                       /\ r[j] = s[i]

\* ---------------------------------------------------------------------- C1
\* C1: for every list state S and every FetchList action with payload P the
\* reducer returns exactly P (same items, same order, same length, nothing
\* of S merged in), and P is the list state afterwards.
C1_FetchReturnsPayload ==
  CalledOnList /\ IsFetch(last.action) =>
    /\ last.ret = last.action.payload
    /\ Len(last.ret) = Len(last.action.payload)
    /\ state.todos = last.action.payload

\* A FetchList with a non-empty payload reduced on a non-empty, different S.
C1_Witness ==
  /\ CalledOnList /\ IsFetch(last.action)
  /\ last.state # <<>>
  /\ last.action.payload # <<>>
  /\ last.action.payload # last.state
  /\ state.todos = last.action.payload

\* ---------------------------------------------------------------------- C2
\* C2 as stated: for every S that contains an item with identifier k,
\* DeleteItem{k} returns S with exactly one item removed, the rest in order.
C2_DeleteRemovesExactlyOne ==
  CalledOnList /\ IsDelete(last.action) /\ last.action.payload \in IdsOf(last.state) =>
    \E i \in Hits(last.state, last.action.payload) :
      last.ret = RemoveAt(last.state, i)

\* C2 as amended: for every S that contains an item with identifier k,
\* DeleteItem{k} returns S with every item carrying k removed and the
\* remaining items in their original relative order; the result is shorter
\* than S by the number of items carrying k, which is one when the
\* identifiers of S are pairwise distinct.
C2_DeleteRemovesEveryMatch ==
  CalledOnList /\ IsDelete(last.action) /\ last.action.payload \in IdsOf(last.state) =>
    LET S == last.state
        k == last.action.payload
    IN /\ IsSelection(last.ret, S, Rest(S, k))
       /\ Len(last.ret) = Len(S) - Cardinality(Hits(S, k))
       /\ Len(last.ret) < Len(S)
       /\ UniqueIds(S) => Len(last.ret) = Len(S) - 1

\* A DeleteItem{k} reduced on an S in which two items carry k.
C2_Witness ==
  /\ CalledOnList /\ IsDelete(last.action)
  /\ Cardinality(Hits(last.state, last.action.payload)) >= 2
  /\ Len(last.ret) = Len(last.state) - 2

\* ---------------------------------------------------------------------- C3
\* C3: for every S and every DeleteItem action the result holds no item
\* whose identifier equals the payload, and holds every item of S whose
\* identifier differs from it.
C3_DeleteExcludesMatchKeepsRest ==
  CalledOnList /\ IsDelete(last.action) =>
    /\ \A j \in DOMAIN last.ret : last.ret[j].id # last.action.payload
    /\ \A i \in DOMAIN last.state :
         last.state[i].id # last.action.payload =>
           \E j \in DOMAIN last.ret : last.ret[j] = last.state[i]
    /\ state.todos = last.ret

\* A DeleteItem{k} reduced on an S holding an item with k and one without.
C3_Witness ==
  /\ CalledOnList /\ IsDelete(last.action)
  /\ Hits(last.state, last.action.payload) # {}
  /\ Rest(last.state, last.action.payload) # {}
  /\ Len(last.ret) = 1

\* ---------------------------------------------------------------------- C4
\* C4: for every S and every identifier k that no item of S carries,
\* DeleteItem{k} returns a list equal to S.
C4_DeleteAbsentIsIdentity ==
  CalledOnList /\ IsDelete(last.action) /\ last.action.payload \notin IdsOf(last.state) =>
    /\ last.ret = last.state
    /\ state.todos = last.state

\* A DeleteItem{k} reduced on a full-length S that does not carry k.
C4_Witness ==
  /\ CalledOnList /\ IsDelete(last.action)
  /\ last.action.payload \notin IdsOf(last.state)
  /\ Len(last.state) = MaxLen
  /\ last.ret = last.state

\* ---------------------------------------------------------------------- C5
\* C5: for every S and every action whose tag is neither FetchList nor
\* DeleteItem (the warm-up actions of the store among them) the reducer
\* returns S unchanged, whatever payload the action carries.
C5_UnknownIsIdentity ==
  CalledOnList /\ IsUnknown(last.action) =>
    /\ last.ret = last.state
    /\ state.todos = last.state

\* An action of undeclared type that carries a payload, reduced on a
\* full-length S.
C5_Witness ==
  /\ CalledOnList /\ IsUnknown(last.action)
  /\ "payload" \in DOMAIN last.action
  /\ Len(last.state) = MaxLen
  /\ last.ret = last.state

\* ---------------------------------------------------------------------- C6
\* C6 as stated: in every reachable state of the store no two items of the
\* list have the same identifier.
C6_UniqueIdentifiers ==
  Booted => UniqueIds(state.todos)

\* C6 as amended: in every reachable state of the store, after any sequence
\* of FetchList, DeleteItem and unknown actions in which every FetchList
\* payload has pairwise distinct identifiers, no two items of the list have
\* the same identifier.
C6_UniqueWhenPayloadsUnique ==
  Booted /\ ~hist.dup => UniqueIds(state.todos)

\* A list of two items reached by payloads without duplicates, after a
\* DeleteItem has been reduced.
C6_Witness ==
  /\ Booted /\ hist.fetched /\ ~hist.dup
  /\ Len(state.todos) >= 2
  /\ last.called /\ IsDelete(last.action)

\* ---------------------------------------------------------------------- C7
\* C7 as stated: the reducer never mutates its input, and the value returned
\* is a new sequence (not the array passed in).
C7_ReturnsNewSequence ==
  CalledOnList =>
    /\ last.input = last.state
    /\ last.alias # "state"

\* C7 as amended: the reducer never mutates its input: for every state S and
\* every action the sequence passed in as S holds the same items in the same
\* order after the call as before it.  The value returned is a new sequence
\* for DeleteItem, the action's payload sequence for FetchList, and the
\* input sequence itself (no copy) for every other tag.
C7_InputKeptAndAliases ==
  CalledOnList =>
    /\ last.input = last.state
    /\ IsDelete(last.action) => last.alias = "new"
    /\ IsFetch(last.action) => last.alias = "payload"
    /\ IsUnknown(last.action) => last.alias = "state" /\ last.ret = last.state

\* A DeleteItem that removes an item: the result differs from the input,
\* which still holds all its items.
C7_Witness ==
  /\ CalledOnList /\ IsDelete(last.action)
  /\ Len(last.ret) < Len(last.state)
  /\ last.input = last.state
  /\ last.alias = "new"

\* ---------------------------------------------------------------------- C8
\* C8: the list state is the empty list when the store has finished booting:
\* the reducer called with no prior state and any warm-up action returns the
\* empty list, and the list stays empty until the first FetchList action is
\* dispatched.
C8_EmptyUntilFirstFetch ==
  /\ last.called /\ last.state = Undefined => last.ret = <<>>
  /\ last.called => Booted
  /\ Booted /\ ~hist.fetched => state.todos = <<>>

\* The store has booted, a DeleteItem has been reduced since, no FetchList
\* has been dispatched, and the list is empty.
C8_Witness ==
  /\ Booted /\ ~hist.fetched
  /\ last.called /\ IsDelete(last.action)
  /\ state.todos = <<>>

\* ---------------------------------------------------------------------- C9
\* C9: each call of fetchList performs exactly one network retrieval, and
\* when it succeeds dispatches exactly one FetchList action whose payload is
\* the retrieved collection; it dispatches nothing before the retrieval
\* completes and nothing more afterwards.
C9_OneGetOneDispatch ==
  /\ \A i \in 1..MaxCalls :
       LET c == calls[i]
       IN /\ c.pc = "idle" => c.gets = 0 /\ c.dispatched = 0
          /\ c.pc = "awaiting" => c.gets = 1 /\ c.dispatched = 0
          /\ c.pc = "done" => c.gets = 1 /\ c.dispatched = 1
          /\ c.pc = "failed" => c.gets = 1
  /\ settled.call # 0 /\ settled.outcome = "resolved" =>
       settled.dispatch =
         <<[type |-> ActionTypes.fetchTodos, payload |-> settled.data]>>

\* A call has resolved with a non-empty collection while another call is
\* still waiting for its response.
C9_Witness ==
  /\ settled.call # 0 /\ settled.outcome = "resolved"
  /\ settled.data # <<>>
  /\ calls[settled.call].pc = "done"
  /\ \E j \in 1..MaxCalls : calls[j].pc = "awaiting"

\* --------------------------------------------------------------------- C10
\* C10: when the network retrieval of a fetchList call fails, that call
\* dispatches no action and the list state is left exactly as it was; the
\* failure is not caught or retried (the call has ended and stays so).
C10_FailureLeavesList ==
  [][\A i \in 1..MaxCalls :
       /\ calls[i].pc = "awaiting" /\ settled' # settled
            /\ settled'.call = i /\ settled'.outcome = "rejected" =>
            /\ state' = state
            /\ settled'.dispatch = <<>>
            /\ calls'[i] = [pc |-> "failed", gets |-> 1, dispatched |-> 0]
       /\ calls[i].pc = "failed" => calls'[i] = calls[i]]_vars

\* A request has failed while the list was not empty.
C10_Witness ==
  /\ settled.call # 0 /\ settled.outcome = "rejected"
  /\ calls[settled.call].pc = "failed"
  /\ state.todos # <<>>


\* --------------------------------------------------------------------- C11
\* C11: deleteItem(id) returns, for every identifier id, an action with tag
\* DeleteItem and payload equal to id, in the step of the call itself, and
\* without changing the list state or issuing any network request.
C11_DeleteTodoBuildsAction ==
  [][Len(log') > Len(log) /\ log'[Len(log')].ev = "deleteTodo" =>
       LET e == log'[Len(log')]
       IN /\ e.ret = [type |-> ActionTypes.deleteTodo, payload |-> e.id]
          /\ state' = state
          /\ props' = props
          /\ hist' = hist
          /\ calls' = calls]_vars

\* deleteTodo has been called with the identifier of an item that is in the
\* list, and the item is in the list still.
C11_Witness ==
  /\ Booted
  /\ \E i \in DOMAIN log :
       /\ log[i].ev = "deleteTodo"
       /\ log[i].id \in IdsOf(state.todos)
       /\ log[i].ret.payload = log[i].id

\* --------------------------------------------------------------------- C12
\* The calls whose request is in flight.
InFlight == {i \in 1..MaxCalls : calls[i].pc = "awaiting"}

\* The step is the completion of a request: every step of GetResolves, and
\* no other, records a resolved request in `settled`.
Completes == settled' # settled /\ settled'.outcome = "resolved"

\* C12: when fetchList is triggered n times before any of the requests
\* completes, n independent requests are in flight at once; none is
\* cancelled or deduplicated (every click adds a request, and a request
\* leaves the flight only by its own completion or failure, which touches no
\* other request), and each one that succeeds dispatches its own FetchList
\* action, in the order the requests complete.
C12_IndependentRequests ==
  [][/\ onButtonClick =>
          /\ Cardinality(InFlight') = Cardinality(InFlight) + 1
          /\ InFlight \subseteq InFlight'
     /\ \A i \in 1..MaxCalls :
          calls'[i] # calls[i] =>
            \A j \in 1..MaxCalls \ {i} : calls'[j] = calls[j]
     /\ \A i \in InFlight \ InFlight' :
          /\ settled'.call = i
          /\ calls'[i].pc \in {"done", "failed"}
     /\ Completes =>
          /\ settled'.call \in InFlight
          /\ calls'[settled'.call] = [pc |-> "done", gets |-> 1, dispatched |-> 1]
          /\ state'.todos = settled'.data]_vars

\* The second request has completed, and its payload is the list, while the
\* first request made is in flight still.
C12_Witness ==
  /\ calls[1].pc = "awaiting"
  /\ calls[2].pc = "done"
  /\ settled.call = 2
  /\ settled.data # <<>>
  /\ state.todos = settled.data

\* --------------------------------------------------------------------- C13
\* C13: the list state changes only in a step that dispatches an action
\* through the reducer: triggering a fetch and a request failing leave it
\* unchanged (as does a request in flight, which takes no step), and every
\* change is the reducer's result for the FetchList action of a completed
\* request or for the DeleteItem action of a clicked item.
C13_OnlyDispatchChangesList ==
  [][/\ onButtonClick \/ GetRejects => state' = state
     /\ state' # state => ~Booted \/ Completes \/ onTodoClick
     /\ state' # state /\ Booted =>
          \/ /\ settled' # settled
             /\ settled'.outcome = "resolved"
             /\ state' = reducers(state, settled'.dispatch[1])
          \/ \E id \in IdsOf(props.todos) :
               state' = reducers(state, deleteTodo(id))]_vars

\* With a non-empty list, fetched by a request that completed, a later request
\* has been made and has failed, and the list is not empty still.
C13_Witness ==
  /\ Booted /\ state.todos # <<>>
  /\ calls[1].pc = "done"
  /\ calls[2].pc = "failed"
  /\ settled.call = 2
  /\ settled.outcome = "rejected"

\* --------------------------------------------------------------------- C14
\* The items of an array.
ItemsOf(s) == {s[i] : i \in DOMAIN s}

\* The payloads of the FetchList actions dispatched so far.
FetchedPayloads ==
  {log[i].action.payload :
     i \in {j \in DOMAIN log : log[j].ev = "dispatch" /\ IsFetch(log[j].action)}}

\* C14: in every reachable state, every item of the list is identical in
\* identifier, title and completion flag to an item of the payload of some
\* FetchList action dispatched before; no action changes an item.
C14_ItemsComeFromPayloads ==
  Booted => \A k \in DOMAIN state.todos :
              \E p \in FetchedPayloads : state.todos[k] \in ItemsOf(p)

\* A list has been fetched and an item deleted from it, and items remain.
C14_Witness ==
  /\ Booted /\ state.todos # <<>>
  /\ Len(log) = 2
  /\ log[1].ev = "dispatch" /\ IsFetch(log[1].action)
  /\ log[2].ev = "dispatch" /\ IsDelete(log[2].action)
  /\ Len(state.todos) < Len(log[1].action.payload)

\* --------------------------------------------------------------------- C15
\* C15: for every list of items and every action of the declared Action type
\* (FetchTodosAction | DeleteTodoAction) the reducer returns a list of items:
\* its evaluation raises no error and its result is never undefined.
C15_ReducerIsTotal ==
  CalledOnList /\ (IsFetch(last.action) \/ IsDelete(last.action)) =>
    /\ last.state \in TodoArray
    /\ last.ret # Undefined
    /\ last.ret \in TodoArray

\* The reducer has been called to delete from the empty list.
C15_Witness ==
  /\ CalledOnList
  /\ IsDelete(last.action)
  /\ last.state = <<>>
  /\ last.ret = <<>>

\* --------------------------------------------------------------------- C16
\* C16: in every state (each one lies between two dispatches, for a dispatch
\* with its rendering is one step) the list the component renders from, its
\* todos prop, equals the list state of the store.
C16_PropsEqualStoreList ==
  /\ DOMAIN props = {"todos"}
  /\ props.todos = state.todos

\* A request has completed and a full list, with a completed item in it, is
\* the store's list and the rendered one.
C16_Witness ==
  /\ Booted
  /\ \E i \in 1..MaxCalls : calls[i].pc = "done"
  /\ Len(state.todos) = MaxLen
  /\ \E k \in DOMAIN state.todos : state.todos[k].completed
  /\ props.todos = state.todos

\* --------------------------------------------------------------------- C17
\* C17: the state of the combined reducer has exactly one field, todos, and
\* after the dispatch of any action that field equals todosReducer applied
\* to the todos field before the dispatch and to that action.
C17_OneFieldReducedByTodosReducer ==
  /\ DOMAIN state = {"todos"}
  /\ last.called => state.todos = todosReducer(last.state, last.action).ret

\* An action has been dispatched that made todosReducer return a list other
\* than the one it was given, and that list is the todos field.
C17_Witness ==
  /\ CalledOnList
  /\ IsDelete(last.action)
  /\ last.ret # last.state
  /\ last.ret # <<>>
  /\ state = [todos |-> last.ret]

\* --------------------------------------------------------------------- C18
\* The dispatched actions of an event log, in the order they were issued.
DispatchedIn(l) == SelectSeq(l, LAMBDA e : e.ev = "dispatch")

\* The left fold of todosReducer over the dispatch events d, from the list s.
RECURSIVE FoldReducer(_, _)
FoldReducer(s, d) ==
  IF Len(d) = 0 THEN s
  ELSE FoldReducer(todosReducer(s, Head(d).action).ret, Tail(d))

\* C18: dispatches are applied one at a time (each is one step) in the order
\* they are issued, each against the state the previous one produced: the
\* list after a sequence of dispatches is the left fold of the reducer over
\* that sequence, starting from the empty list.
C18_ListIsLeftFold ==
  Booted => state.todos = FoldReducer(<<>>, DispatchedIn(log))

\* Two different non-empty lists have been fetched one after the other, and
\* the list is the second.
C18_Witness ==
  /\ Booted
  /\ Len(log) = 2
  /\ log[1].ev = "dispatch" /\ IsFetch(log[1].action)
  /\ log[2].ev = "dispatch" /\ IsFetch(log[2].action)
  /\ log[1].action.payload # <<>>
  /\ log[2].action.payload # <<>>
  /\ log[1].action.payload # log[2].action.payload
  /\ state.todos = log[2].action.payload

\* --------------------------------------------------------------------- C19
\* Every request made has completed, and one at least has been made.
AllCompleted ==
  /\ \E i \in 1..MaxCalls : calls[i].pc = "done"
  /\ \A i \in 1..MaxCalls : calls[i].pc \in {"idle", "done"}

\* C19: the fetching flag is false initially, becomes true when the Fetch
\* button is clicked, and is false again once the fetch started by the click
\* has completed and its FetchList action has been reduced and rendered, for
\* every prior list and every payload: with every request made completed
\* (none in flight, none failed) the flag is false.
C19_FlagTracksLoading ==
  /\ ~fetching
  /\ [][onButtonClick => fetching']_vars
  /\ [](AllCompleted => ~fetching)

\* --------------------------------------------------------------------- C20
\* C20: the fetching flag goes from true to false only in an update whose
\* previously rendered list was empty and whose newly rendered list is not,
\* and such an update leaves it false; every other update, after a completed
\* or a failed request, and every delete leave the flag as it was.
C20_FlagResetOnlyFromEmpty ==
  [][/\ fetching /\ ~fetching' =>
          /\ Completes
          /\ props.todos = <<>>
          /\ props'.todos # <<>>
     /\ Completes /\ props.todos = <<>> /\ props'.todos # <<>> => ~fetching'
     /\ (Completes \/ GetRejects) /\ ~(props.todos = <<>> /\ props'.todos # <<>>) =>
          fetching' = fetching
     /\ onTodoClick => fetching' = fetching]_vars

\* A request has completed on the empty list with items, which reset the
\* flag, and the items are rendered.
C20_Witness ==
  /\ Booted
  /\ ~fetching
  /\ \E i \in 1..MaxCalls : calls[i].pc = "done"
  /\ settled.outcome = "resolved"
  /\ props.todos # <<>>

\* --------------------------------------------------------------------- C21
\* The positions of the log at which a FetchList action was dispatched.
FetchPositions ==
  {i \in DOMAIN log : log[i].ev = "dispatch" /\ IsFetch(log[i].action)}

\* The payload of the FetchList action dispatched last.
LastFetchedPayload ==
  log[CHOOSE i \in FetchPositions : \A j \in FetchPositions : j <= i].action.payload

\* r is a subsequence of s: the items of s at some of its positions, in the
\* order of s.
IsSubsequence(r, s) == \E keep \in SUBSET DOMAIN s : IsSelection(r, s, keep)

\* C21: after any sequence of dispatched actions the list state is a
\* subsequence of the payload of the FetchList action dispatched last (same
\* items, same relative order, possibly with items removed), and it is the
\* empty list when no FetchList action has been dispatched yet.
C21_SubsequenceOfLastPayload ==
  Booted =>
    IF FetchPositions = {}
    THEN state.todos = <<>>
    ELSE IsSubsequence(state.todos, LastFetchedPayload)

\* A payload of MaxLen items has been fetched and its first item deleted:
\* the list is the rest of the payload, in the payload's order.
C21_Witness ==
  /\ Booted
  /\ Len(log) >= 2
  /\ log[Len(log)].ev = "dispatch" /\ IsDelete(log[Len(log)].action)
  /\ FetchPositions = {Len(log) - 1}
  /\ Len(LastFetchedPayload) = MaxLen
  /\ log[Len(log)].action.payload = LastFetchedPayload[1].id
  /\ state.todos = Tail(LastFetchedPayload)
  /\ state.todos # <<>>

\* --------------------------------------------------------------------- C22
\* The latest click on an item was made while the request of the call that
\* settled last was in flight, and that request has completed since.  No
\* other dispatch lies between the completion and the present state: a later
\* click would be the latest, and a later completion the last settled.
CompletedAfterClickInFlight ==
  /\ Len(log) = 1
  /\ log[1].ev = "onTodoClick"
  /\ settled.call \in log[1].inflight
  /\ settled.outcome = "resolved"

\* C22: a DeleteItem dispatched while a fetch request is in flight is
\* overwritten when the request completes: the list right after the
\* completion equals the request's payload, so that an item deleted during
\* the flight is in the list again when the payload holds it.
C22_CompletionOverwritesDelete ==
  CompletedAfterClickInFlight =>
    /\ state.todos = settled.data
    /\ log[1].id \in IdsOf(settled.data) => log[1].id \in IdsOf(state.todos)

\* An item was deleted during the flight of a request, the request has
\* completed with a payload that holds an item of that identifier, and the
\* item is in the list.
C22_Witness ==
  /\ CompletedAfterClickInFlight
  /\ log[1].id \in IdsOf(settled.data)
  /\ log[1].id \in IdsOf(state.todos)

\* --------------------------------------------------------------------- C23
\* The step is a click on an item: after the boot every other step makes or
\* settles a call of fetchTodos.
ClicksItem == Booted /\ calls' = calls

\* C23: every DeleteItem action dispatched from the UI carries the
\* identifier of an item that is in the list state at the moment of the
\* click, and its dispatch shortens the list by at least one item.
C23_ClickDeletesRenderedItem ==
  [][ClicksItem =>
       LET id == log'[1].id
       IN /\ id \in IdsOf(state.todos)
          /\ state' = reducers(state, deleteTodo(id))
          /\ Len(state'.todos) < Len(state.todos)]_vars

\* With no request in flight, an item of a fetched list whose MaxLen items
\* all carry one identifier has been clicked: the list has lost them all.
C23_Witness ==
  /\ Len(log) = 1
  /\ log[1].inflight = {}
  /\ settled.outcome = "resolved"
  /\ Len(settled.data) = MaxLen
  /\ IdsOf(settled.data) = {log[1].id}
  /\ state.todos = <<>>

\* --------------------------------------------------------------------- C24
\* C24: for every list state S and identifier k, applying DeleteItem{k} to
\* the result of applying it to S gives that result again.
C24_DeleteIsIdempotent ==
  CalledOnList /\ IsDelete(last.action) =>
    todosReducer(last.ret, last.action).ret = last.ret

\* DeleteItem{k} has been applied to a list in which more than one item
\* carries k, and has changed it.
C24_Witness ==
  /\ CalledOnList
  /\ IsDelete(last.action)
  /\ Cardinality(Hits(last.state, last.action.payload)) > 1
  /\ last.ret # last.state
  /\ todosReducer(last.ret, last.action).ret = last.ret

\* --------------------------------------------------------------------- C25
\* C25: for every list state S and identifiers j and k, applying
\* DeleteItem{k} and then DeleteItem{j} to S gives the same list as applying
\* DeleteItem{j} and then DeleteItem{k}.
C25_DeletesCommute ==
  CalledOnList /\ IsDelete(last.action) =>
    \A j \in TodoId :
      todosReducer(last.ret, deleteTodo(j)).ret =
        todosReducer(todosReducer(last.state, deleteTodo(j)).ret, last.action).ret

\* DeleteItem{k} has been applied to a list of MaxLen items of different
\* identifiers, k among them: an item of another identifier is left, for
\* which the order of the two deletes could matter.
C25_Witness ==
  /\ CalledOnList
  /\ IsDelete(last.action)
  /\ Len(last.state) = MaxLen
  /\ UniqueIds(last.state)
  /\ last.action.payload \in IdsOf(last.state)
  /\ \E j \in IdsOf(last.ret) : j # last.action.payload

====
